---------------------------- MODULE Spec2Model ----------------------------
(***************************************************************************)
(* Cart & order consistency of the storefront client: the Cart screen      *)
(* (src/unnamed/part_000), the Checkout screen (src/app/(tabs)/Checkout.tsx)*)
(* the Notifications screen (src/app/(tabs)/Notifications.tsx) and the     *)
(* remote resource store they read and write over REST.                    *)
(*                                                                         *)
(* Every asynchronous handler is split at its awaits on the network: a     *)
(* request is "sent", the server serves it (reads or writes the store) and *)
(* the response is delivered to the handler's continuation later. A        *)
(* request that fails is rejected without any effect on the store and runs *)
(* the handler's catch block.                                              *)
(*                                                                         *)
(* Strings the code takes apart (prices, the address) are sequences of     *)
(* one-character strings; the currency glyph is written "d".               *)
(***************************************************************************)
EXTENDS Integers, Sequences, FiniteSets, Bags, TLC

(***************************************************************************)
(* Bounds of the model.                                                    *)
(***************************************************************************)
MaxQty == 2
MaxInFlight == 2
MaxOrders == 2

VARIABLES
    session,        \* TRUE iff AsyncStorage holds a 'userId'
    locale,         \* the group separator of the device's locale
    remoteCart,     \* the cart field of the user resource in the remote store
    remoteOrders,   \* the orders collection of the remote store
    lastCartWrite,  \* the screen whose PATCH the store applied last
    screen,         \* the screen in front
    cartItems, cartUserInfo, cartTotalPrice, cartIsLoading,   \* Cart state
    cartAlert,      \* the error notice the Cart screen shows
    cartDialog,     \* the confirmation dialog the Cart screen shows
    cartTasks,      \* the Cart screen's requests in flight (a bag)
    params,         \* the navigation bundle Checkout was opened with
    coCartItems, coUserInfo, coTotalPrice, coIsLoading,       \* Checkout state
    address, paymentMethod, dataLoaded,
    coAlert,        \* the notice the Checkout screen shows
    coTask,         \* the Checkout screen's request in flight
    orderSeq,       \* the number of order ids made so far
    fnOp, fnCart, fnId, fnQty, fnOut,  \* a cart edit applied on its own
    fnArg, fnRes,   \* a function applied on its own: its argument and result
    nOrders, nLoading, nRefreshing,    \* Notifications state
    nTasks,         \* the Notifications screen's requests in flight (a bag)
    nMounted,       \* TRUE once the Notifications tab has mounted
    nErrorLogged    \* TRUE once fetchOrders has written to console.error

(***************************************************************************)
(* Program constants.                                                      *)
(***************************************************************************)
ShippingFee == 30000

NaN == 0 - 1

(***************************************************************************)
(* Price strings: parseFloat(price.replace(/\./g, '').replace('d', '')).   *)
(***************************************************************************)
Digits == <<"0", "1", "2", "3", "4", "5", "6", "7", "8", "9">>

IsDigit(ch) == \E i \in 1..10 : Digits[i] = ch

DigitVal(ch) == (CHOOSE i \in 1..10 : Digits[i] = ch) - 1

\* String.prototype.replace with a global pattern: every occurrence goes.
ReplaceAll(s, ch) == SelectSeq(s, LAMBDA c : c # ch)

\* String.prototype.replace with a string pattern: the first occurrence goes.
RECURSIVE ReplaceFirst(_, _)
ReplaceFirst(s, ch) ==
    IF s = <<>> THEN <<>>
    ELSE IF Head(s) = ch THEN Tail(s)
    ELSE <<Head(s)>> \o ReplaceFirst(Tail(s), ch)

\* The value of the longest prefix of digits, read left to right.
RECURSIVE DigitsValue(_, _)
DigitsValue(s, acc) ==
    IF s = <<>> \/ ~IsDigit(Head(s)) THEN acc
    ELSE DigitsValue(Tail(s), acc * 10 + DigitVal(Head(s)))

\* parseFloat on a string over digits, "." and "d": NaN without a leading digit.
ParseFloat(s) ==
    IF s = <<>> \/ ~IsDigit(Head(s)) THEN NaN ELSE DigitsValue(s, 0)

\* ParsePrice with a pattern that is not global: only the first "." goes.
ParsePriceFirstDot(price) ==
    ParseFloat(ReplaceFirst(ReplaceFirst(price, "."), "d"))

ParsePrice(price) == ParseFloat(ReplaceFirst(ReplaceAll(price, "."), "d"))

\* AddLine returning the line's amount without the sum so far.
AddLineOverwrites(sum, item) ==
    IF sum = NaN \/ ParsePrice(item.price) = NaN THEN NaN
    ELSE ParsePrice(item.price) * item.quantity

\* sum + price * quantity of the reducer; NaN is absorbing.
AddLine(sum, item) ==
    IF sum = NaN \/ ParsePrice(item.price) = NaN THEN NaN
    ELSE sum + ParsePrice(item.price) * item.quantity

RECURSIVE Reduce(_, _)
Reduce(items, sum) ==
    IF items = <<>> THEN sum ELSE Reduce(Tail(items), AddLine(sum, Head(items)))

\* calculateTotalPrice of the Cart screen, on its cartItems
calculateTotalPrice(items) == Reduce(items, 0)

\* calculateTotalPrice(items) of the Checkout screen: the same reducer
coCalculateTotalPrice(items) == Reduce(items, 0)

(***************************************************************************)
(* Cart lines and the cart edits of the Cart screen.                       *)
(***************************************************************************)
Line(id, productId, price, quantity) ==
    [id |-> id, productId |-> productId, price |-> price, quantity |-> quantity]

Price10 == <<"1", "0", ".", "0", "0", "0", "d">>
Price5 == <<"5", ".", "0", "0", "0", "d">>

LineA(q) == Line("c1", <<"p", "1", "a">>, Price10, q)
LineB(q) == Line("c2", <<"p", "2">>, Price5, q)
LineC(q) == Line("c3", <<"b", "3">>, Price5, q)
LineD(q) == Line("c4", <<"b", "a">>, Price10, q)

\* The carts the remote store may hold when the app starts.
InitCarts == {<<>>, <<LineA(1)>>}
InitCartsOrder ==
    {<<>>, <<LineA(1)>>, <<LineA(2), LineB(3)>>, <<LineC(1), LineD(1)>>}

ItemIds == {"c1", "c2", "c3"}

\* RemoveLine with the test of the filter turned round.
RemoveLineKeepsLine(cart, itemId) ==
    SelectSeq(cart, LAMBDA item : item.id = itemId)

\* cartItems.filter(item => item.id !== itemId)
RemoveLine(cart, itemId) == SelectSeq(cart, LAMBDA item : item.id # itemId)

\* MapQuantity adding newQuantity to the line's quantity.
MapQuantityAdds(cart, itemId, newQuantity) ==
    [i \in 1..Len(cart) |->
        IF cart[i].id = itemId
        THEN [cart[i] EXCEPT !.quantity = cart[i].quantity + newQuantity]
        ELSE cart[i]]

\* MapQuantity without the test of the line's id.
MapQuantityAll(cart, itemId, newQuantity) ==
    [i \in 1..Len(cart) |-> [cart[i] EXCEPT !.quantity = newQuantity]]

\* cartItems.map(item => item.id === itemId ? {...item, quantity} : item)
MapQuantity(cart, itemId, newQuantity) ==
    [i \in 1..Len(cart) |->
        IF cart[i].id = itemId
        THEN [cart[i] EXCEPT !.quantity = newQuantity]
        ELSE cart[i]]

\* SetQuantity without the branch for newQuantity === 0.
SetQuantityKeepsZero(cart, itemId, newQuantity) ==
    MapQuantity(cart, itemId, newQuantity)

\* updatedCart of updateQuantity
SetQuantity(cart, itemId, newQuantity) ==
    IF newQuantity = 0
    THEN RemoveLine(cart, itemId)
    ELSE MapQuantity(cart, itemId, newQuantity)

(***************************************************************************)
(* Amounts as the order record carries them: n.toLocaleString() + "d".    *)
(* toLocaleString() is called without a locale, so the integer is written  *)
(* in groups of three digits with the separator of the device's locale:    *)
(* "." on a vi-VN device, "," on an en-US one.                             *)
(***************************************************************************)
GroupSeps == {".", ","}

RECURSIVE DigitsOf(_)
DigitsOf(n) ==
    IF n < 10 THEN <<Digits[n + 1]>>
    ELSE DigitsOf(n \div 10) \o <<Digits[(n % 10) + 1]>>

RECURSIVE Grouped(_, _)
Grouped(ds, sep) ==
    IF Len(ds) <= 3 THEN ds
    ELSE Grouped(SubSeq(ds, 1, Len(ds) - 3), sep) \o <<sep>>
             \o SubSeq(ds, Len(ds) - 2, Len(ds))

\* n.toLocaleString()
ToLocaleString(n) ==
    IF n = NaN THEN <<"N", "a", "N">> ELSE Grouped(DigitsOf(n), locale)

\* `${n.toLocaleString()}d`
FormatAmount(n) == ToLocaleString(n) \o <<"d">>

\* totalPrice + shippingFee
AddAmounts(a, b) == IF a = NaN \/ b = NaN THEN NaN ELSE a + b

(***************************************************************************)
(* The address: address.trim() drops the blanks at both ends.              *)
(***************************************************************************)
RECURSIVE TrimStart(_)
TrimStart(s) ==
    IF s = <<>> THEN <<>>
    ELSE IF Head(s) = " " THEN TrimStart(Tail(s)) ELSE s

RECURSIVE TrimEnd(_)
TrimEnd(s) ==
    IF s = <<>> THEN <<>>
    ELSE IF s[Len(s)] = " " THEN TrimEnd(SubSeq(s, 1, Len(s) - 1)) ELSE s

Trim(s) == TrimEnd(TrimStart(s))

\* The texts the address field is given.
Addresses == {<<>>, <<" ">>, <<"A">>}

(***************************************************************************)
(* The user resource's profile; NullUser is the null userInfo.             *)
(***************************************************************************)
Profile ==
    [id |-> "u1", fullName |-> "An", email |-> "an@x", phoneNumber |-> "09"]
NullUser == [id |-> "", fullName |-> "", email |-> "", phoneNumber |-> ""]

(***************************************************************************)
(* The order record of handlePlaceOrder.                                   *)
(***************************************************************************)
Includes(s, ch) == \E i \in 1..Len(s) : s[i] = ch

\* getItemType with its two tests in the other order.
getItemTypeBFirst(productId) ==
    IF Includes(productId, "b") THEN "accessory"
    ELSE IF Includes(productId, "a") THEN "pot"
    ELSE "plant"

getItemType(productId) ==
    IF Includes(productId, "a") THEN "pot"
    ELSE IF Includes(productId, "b") THEN "accessory"
    ELSE "plant"

\* {...item, type: getItemType(item.productId)}
WithType(item) ==
    [id |-> item.id, productId |-> item.productId, price |-> item.price,
     quantity |-> item.quantity, type |-> getItemType(item.productId)]

OrderItems(items) == [i \in 1..Len(items) |-> WithType(items[i])]

\* An order item without its derived type: the cart line it was made from.
WithoutType(item) == Line(item.id, item.productId, item.price, item.quantity)

OrderLines(order) == [i \in 1..Len(order.items) |-> WithoutType(order.items[i])]

NewOrder(id, user, addr, items, total, method) ==
    [id |-> id,
     userId |-> Profile.id,
     customerInfo |-> [fullName |-> user.fullName, email |-> user.email,
                       phoneNumber |-> user.phoneNumber, address |-> addr],
     items |-> OrderItems(items),
     totalAmount |-> FormatAmount(total),
     shippingFee |-> FormatAmount(ShippingFee),
     finalAmount |-> FormatAmount(AddAmounts(total, ShippingFee)),
     paymentMethod |-> method,
     status |-> "Dang xu ly"]

\* ClearCartBody writing the ordered lines back.
KeepCartBody(items) == items

\* The body of the PATCH that follows the POST of the order.
ClearCartBody(items) == <<>>

storeVars == <<session, locale, remoteCart, remoteOrders, lastCartWrite>>
cartVars == <<cartItems, cartUserInfo, cartTotalPrice, cartIsLoading,
              cartAlert, cartDialog, cartTasks>>
coData == <<coCartItems, coUserInfo, coTotalPrice>>
coForm == <<address, paymentMethod>>
coVars == <<params, coData, coIsLoading, coForm, dataLoaded, coAlert,
            coTask, orderSeq>>
fnVars == <<fnOp, fnCart, fnId, fnQty, fnOut, fnArg, fnRes>>
histVars == <<nOrders, nLoading, nRefreshing, nTasks, nMounted,
              nErrorLogged>>
appVars == <<storeVars, screen, cartVars, coVars, histVars>>
vars == <<storeVars, screen, cartVars, coVars, fnVars, histVars>>

NoDialog == [kind |-> "none", itemId |-> "", base |-> <<>>]

Task(kind, op, st, cart) ==
    [kind |-> kind, op |-> op, st |-> st, cart |-> cart]

One(t) == SetToBag({t})

OutstandingCart == BagCardinality(cartTasks)

(***************************************************************************)
(* The navigation bundle. A JSON text is "absent" (the parameter is not    *)
(* given), "text" (the text JSON.stringify writes for the value v) or      *)
(* "bad" (a text JSON.parse throws on). totalAmount is the text itself,    *)
(* a sequence of characters, empty when the parameter is not given.        *)
(***************************************************************************)
JsonAbsent(v) == [st |-> "absent", v |-> v]
JsonBad(v) == [st |-> "bad", v |-> v]
JsonStringify(v) == [st |-> "text", v |-> v]
JsonParseThrows(j) == j.st = "bad"
JsonParse(j) == j.v
Truthy(j) == j.st # "absent"

\* NumberToString writing the total the way the order's amounts are written.
NumberToStringLocale(n) == ToLocaleString(n)

\* totalPrice.toString()
NumberToString(n) == IF n = NaN THEN <<"N", "a", "N">> ELSE DigitsOf(n)

\* The route entry of Checkout: the screen it was pushed from and the
\* parameters it was pushed with.
Bundle(from, cartData, userData, totalAmount) ==
    [from |-> from, cartData |-> cartData, userData |-> userData,
     totalAmount |-> totalAmount]

NoParams == Bundle("home", JsonAbsent(<<>>), JsonAbsent(NullUser), <<>>)

\* The bundles Checkout is opened with from outside the Cart screen: none,
\* one without userData and totalAmount, one whose cartData is no JSON, one
\* whose userData is no JSON, one whose totalAmount is no number.
StaleCart == <<LineB(1)>>
Bundles ==
    {NoParams,
     Bundle("home", JsonStringify(StaleCart), JsonAbsent(NullUser), <<>>),
     Bundle("home", JsonBad(<<>>), JsonStringify(Profile), <<"5", "0", "0", "0">>),
     Bundle("home", JsonStringify(StaleCart), JsonBad(NullUser),
            <<"5", "0", "0", "0">>),
     Bundle("home", JsonStringify(StaleCart), JsonStringify(Profile),
            <<"a", "b", "c">>)}

\* params.cartData && params.userData && params.totalAmount
BundleGiven(b) ==
    Truthy(b.cartData) /\ Truthy(b.userData) /\ b.totalAmount # <<>>

\* One of the JSON.parse calls of loadData throws.
BundleThrows(b) == JsonParseThrows(b.cartData) \/ JsonParseThrows(b.userData)

\* The Checkout screen's request: kind "none" when there is none.
CoTask(kind, st, cart, order) ==
    [kind |-> kind, st |-> st, cart |-> cart, order |-> order]
NoCoTask == CoTask("none", "", <<>>, <<>>)

AppInit(carts) ==
    /\ session \in BOOLEAN
    /\ locale \in GroupSeps
    /\ remoteCart \in carts
    /\ remoteOrders = <<>>
    /\ lastCartWrite = "none"
    /\ screen = "home"
    /\ cartItems = <<>>
    /\ cartUserInfo = NullUser
    /\ cartTotalPrice = 0
    /\ cartIsLoading = TRUE
    /\ cartAlert = "none"
    /\ cartDialog = NoDialog
    /\ cartTasks = EmptyBag
    /\ params = NoParams
    /\ coCartItems = <<>>
    /\ coUserInfo = NullUser
    /\ coTotalPrice = 0
    /\ coIsLoading = TRUE
    /\ address = <<>>
    /\ paymentMethod = "COD"
    /\ dataLoaded = FALSE
    /\ coAlert = "none"
    /\ coTask = NoCoTask
    /\ orderSeq = 0
    /\ nOrders = <<>>
    /\ nLoading = TRUE
    /\ nRefreshing = FALSE
    /\ nTasks = EmptyBag
    /\ nMounted = FALSE
    /\ nErrorLogged = FALSE

\* No function is applied on its own.
NoArg == [t |-> "none", v |-> 0]

InitWith(carts) ==
    /\ AppInit(carts)
    /\ fnOp = "none"
    /\ fnCart = <<>>
    /\ fnId = "c1"
    /\ fnQty = 0
    /\ fnOut = <<>>
    /\ fnArg = NoArg
    /\ fnRes = 0

Init == InitWith(InitCarts)

(***************************************************************************)
(* Cart screen.                                                            *)
(***************************************************************************)
\* fetchCartData up to its GET: the state it leaves and the request it sends.
FetchCartDataLoading(loading) == IF session THEN loading ELSE FALSE
FetchCartDataTasks(tasks) ==
    IF session THEN tasks (+) One(Task("GET", "fetch", "sent", <<>>)) ELSE tasks

\* useFocusEffect: the Cart screen comes to the front and calls fetchCartData.
OpenCart ==
    /\ screen = "home"
    /\ OutstandingCart < MaxInFlight
    /\ screen' = "cart"
    /\ cartIsLoading' = FetchCartDataLoading(cartIsLoading)
    /\ cartTasks' = FetchCartDataTasks(cartTasks)
    /\ UNCHANGED <<storeVars, cartItems, cartUserInfo, cartTotalPrice,
                   cartAlert, cartDialog, coVars, fnVars, histVars>>

\* The store serves a GET /users/{id} of the Cart screen.
CartGetServe ==
    \E t \in BagToSet(cartTasks) :
        /\ t.kind = "GET" /\ t.st = "sent"
        /\ cartTasks' = (cartTasks (-) One(t))
                            (+) One([t EXCEPT !.st = "ok", !.cart = remoteCart])
        /\ UNCHANGED <<storeVars, screen, cartItems, cartUserInfo,
                       cartTotalPrice, cartIsLoading, cartAlert, cartDialog,
                       coVars, fnVars, histVars>>

\* fetchCartData after its GET: the response is applied (lines 67-74), and
\* the effect on [cartItems] recomputes the total.
CartGetDeliver ==
    \E t \in BagToSet(cartTasks) :
        /\ t.kind = "GET" /\ t.st = "ok"
        /\ cartTasks' = cartTasks (-) One(t)
        /\ cartItems' = t.cart
        /\ cartUserInfo' = Profile
        /\ cartTotalPrice' = calculateTotalPrice(t.cart)
        /\ cartIsLoading' = FALSE
        /\ UNCHANGED <<storeVars, screen, cartAlert, cartDialog, coVars,
                       fnVars, histVars>>

\* fetchCartData's catch block.
CartGetFail ==
    \E t \in BagToSet(cartTasks) :
        /\ t.kind = "GET" /\ t.st = "sent"
        /\ cartTasks' = cartTasks (-) One(t)
        /\ cartIsLoading' = FALSE
        /\ cartAlert' = "fetch"
        /\ UNCHANGED <<storeVars, screen, cartItems, cartUserInfo,
                       cartTotalPrice, cartDialog, coVars, fnVars, histVars>>

\* The user dismisses the error notice.
CartAlertDismiss ==
    /\ cartAlert # "none"
    /\ cartAlert' = "none"
    /\ UNCHANGED <<storeVars, screen, cartItems, cartUserInfo,
                   cartTotalPrice, cartIsLoading, cartDialog, cartTasks,
                   coVars, fnVars, histVars>>

\* The controls of a cart line are rendered only while isLoading is false;
\* an Alert in front takes the taps.
CartIdle == screen = "cart" /\ cartAlert = "none" /\ cartDialog.kind = "none"
LinesShown == CartIdle /\ ~cartIsLoading

\* The body of a mutating handler from its setIsLoading(true) to its PATCH.
StartPatch(op, body) ==
    /\ OutstandingCart < MaxInFlight
    /\ cartIsLoading' = TRUE
    /\ cartTasks' = IF session
                    THEN cartTasks (+) One(Task("PATCH", op, "sent", body))
                    ELSE cartTasks

\* updateQuantity(item.id, item.quantity - 1) and (item.id, item.quantity + 1)
UpdateQuantity ==
    \E i \in 1..Len(cartItems), d \in {0 - 1, 1} :
        /\ LinesShown
        /\ cartItems[i].quantity + d <= MaxQty
        /\ StartPatch("update",
                      SetQuantity(cartItems, cartItems[i].id,
                                  cartItems[i].quantity + d))
        /\ UNCHANGED <<storeVars, screen, cartItems, cartUserInfo,
                       cartTotalPrice, cartAlert, cartDialog, coVars, fnVars, histVars>>

\* The trash button of a line opens the confirmation; its "Xoa" button keeps
\* the removeItem of the render that opened it.
RemoveItemAsk ==
    \E i \in 1..Len(cartItems) :
        /\ LinesShown
        /\ cartDialog' = [kind |-> "remove", itemId |-> cartItems[i].id,
                          base |-> cartItems]
        /\ UNCHANGED <<storeVars, screen, cartItems, cartUserInfo,
                       cartTotalPrice, cartIsLoading, cartAlert, cartTasks,
                       coVars, fnVars, histVars>>

\* The header's "Xoa tat ca" is rendered whenever cartItems is not empty.
RemoveAllAsk ==
    /\ CartIdle
    /\ Len(cartItems) > 0
    /\ cartDialog' = [kind |-> "removeAll", itemId |-> "", base |-> cartItems]
    /\ UNCHANGED <<storeVars, screen, cartItems, cartUserInfo,
                   cartTotalPrice, cartIsLoading, cartAlert, cartTasks,
                   coVars, fnVars, histVars>>

DialogCancel ==
    /\ cartDialog.kind # "none"
    /\ cartDialog' = NoDialog
    /\ UNCHANGED <<storeVars, screen, cartItems, cartUserInfo,
                   cartTotalPrice, cartIsLoading, cartAlert, cartTasks,
                   coVars, fnVars, histVars>>

\* removeItem(item.id)
RemoveItem ==
    /\ cartDialog.kind = "remove"
    /\ StartPatch("remove",
                  RemoveLine(cartDialog.base, cartDialog.itemId))
    /\ cartDialog' = NoDialog
    /\ UNCHANGED <<storeVars, screen, cartItems, cartUserInfo,
                   cartTotalPrice, cartAlert, coVars, fnVars, histVars>>

\* removeAllItems
RemoveAllItems ==
    /\ cartDialog.kind = "removeAll"
    /\ StartPatch("removeAll", <<>>)
    /\ cartDialog' = NoDialog
    /\ UNCHANGED <<storeVars, screen, cartItems, cartUserInfo,
                   cartTotalPrice, cartAlert, coVars, fnVars, histVars>>

\* The store applies a PATCH /users/{id} {cart} of the Cart screen and the
\* handler goes on: fetchCartData() is called and not awaited.
CartPatchDone ==
    \E t \in BagToSet(cartTasks) :
        /\ t.kind = "PATCH" /\ t.st = "sent"
        /\ remoteCart' = t.cart
        /\ lastCartWrite' = "Cart"
        /\ cartIsLoading' = FetchCartDataLoading(cartIsLoading)
        /\ cartTasks' = FetchCartDataTasks(cartTasks (-) One(t))
        /\ UNCHANGED <<session, locale, remoteOrders, screen, cartItems,
                       cartUserInfo, cartTotalPrice, cartAlert, cartDialog,
                       coVars, fnVars, histVars>>

\* CartPatchFail of a handler that had set cartItems to the body it sent and
\* does not put the old cart back.
CartPatchFailKeepsBody ==
    \E t \in BagToSet(cartTasks) :
        /\ t.kind = "PATCH" /\ t.st = "sent"
        /\ cartTasks' = cartTasks (-) One(t)
        /\ cartItems' = t.cart
        /\ cartIsLoading' = FALSE
        /\ cartAlert' = t.op
        /\ UNCHANGED <<storeVars, screen, cartUserInfo, cartTotalPrice,
                       cartDialog, coVars, fnVars, histVars>>

\* The catch block of updateQuantity, removeItem and removeAllItems.
CartPatchFail ==
    \E t \in BagToSet(cartTasks) :
        /\ t.kind = "PATCH" /\ t.st = "sent"
        /\ cartTasks' = cartTasks (-) One(t)
        /\ cartIsLoading' = FALSE
        /\ cartAlert' = t.op
        /\ UNCHANGED <<storeVars, screen, cartItems, cartUserInfo,
                       cartTotalPrice, cartDialog, coVars, fnVars, histVars>>

(***************************************************************************)
(* Checkout screen.                                                        *)
(***************************************************************************)
\* The state of a Checkout component that has just been mounted.
MountCheckout ==
    /\ coCartItems' = <<>>
    /\ coUserInfo' = NullUser
    /\ coTotalPrice' = 0
    /\ coIsLoading' = TRUE
    /\ address' = <<>>
    /\ paymentMethod' = "COD"
    /\ dataLoaded' = FALSE
    /\ coAlert' = "none"
    /\ coTask' = NoCoTask

\* navigateToCheckout: the "THANH TOAN" button is rendered below the lines of
\* a cart that is not empty; router.push hands the bundle over.
NavigateToCheckout ==
    /\ LinesShown
    /\ Len(cartItems) > 0
    /\ screen' = "checkout"
    /\ params' = Bundle("cart", JsonStringify(cartItems),
                         JsonStringify(cartUserInfo),
                         NumberToString(cartTotalPrice))
    /\ MountCheckout
    /\ UNCHANGED <<storeVars, cartVars, orderSeq, fnVars, histVars>>

\* Checkout opened from outside the Cart screen with one of the bundles.
OpenCheckoutWith(bundles) ==
    \E b \in bundles :
        /\ screen = "home"
        /\ screen' = "checkout"
        /\ params' = b
        /\ MountCheckout
        /\ UNCHANGED <<storeVars, cartVars, orderSeq, fnVars, histVars>>

OpenCheckout == OpenCheckoutWith(Bundles)

\* Checkout opened without a bundle.
OpenCheckoutBare == OpenCheckoutWith({NoParams})

\* loadData, with fetchUserData up to its GET in the fallback.
LoadData ==
    /\ screen = "checkout"
    /\ ~dataLoaded
    /\ coTask.kind = "none"
    /\ IF BundleGiven(params) /\ ~BundleThrows(params)
       THEN /\ coCartItems' = JsonParse(params.cartData)
            /\ coUserInfo' = JsonParse(params.userData)
            /\ coTotalPrice' = ParseFloat(params.totalAmount)
            /\ coIsLoading' = FALSE
            /\ dataLoaded' = TRUE
            /\ UNCHANGED <<screen, coTask>>
       ELSE IF session
       THEN /\ coTask' = CoTask("GET", "sent", <<>>, <<>>)
            /\ UNCHANGED <<screen, coData, coIsLoading, dataLoaded>>
       ELSE /\ screen' = "login"
            /\ dataLoaded' = TRUE
            /\ UNCHANGED <<coData, coIsLoading, coTask>>
    /\ UNCHANGED <<storeVars, cartVars, params, coForm, coAlert, orderSeq,
                   fnVars, histVars>>

\* The store serves the GET /users/{id} of fetchUserData.
CoGetServe ==
    /\ coTask.kind = "GET" /\ coTask.st = "sent"
    /\ coTask' = CoTask("GET", "ok", remoteCart, <<>>)
    /\ UNCHANGED <<storeVars, screen, cartVars, params, coData, coIsLoading,
                   coForm, dataLoaded, coAlert, orderSeq, fnVars, histVars>>

\* fetchUserData after its GET, and loadData after fetchUserData.
CoGetDeliver ==
    /\ coTask.kind = "GET" /\ coTask.st = "ok"
    /\ coUserInfo' = Profile
    /\ coCartItems' = coTask.cart
    /\ coTotalPrice' = coCalculateTotalPrice(coTask.cart)
    /\ coIsLoading' = FALSE
    /\ dataLoaded' = TRUE
    /\ coTask' = NoCoTask
    /\ UNCHANGED <<storeVars, screen, cartVars, params, coForm, coAlert,
                   orderSeq, fnVars, histVars>>

\* fetchUserData's catch block, and loadData after fetchUserData.
CoGetFail ==
    /\ coTask.kind = "GET" /\ coTask.st = "sent"
    /\ coIsLoading' = FALSE
    /\ coAlert' = "load"
    /\ dataLoaded' = TRUE
    /\ coTask' = NoCoTask
    /\ UNCHANGED <<storeVars, screen, cartVars, params, coData, coForm,
                   orderSeq, fnVars, histVars>>

\* The form is rendered only while isLoading is false.
FormShown == screen = "checkout" /\ ~coIsLoading /\ coAlert = "none"

\* onChangeText={setAddress}
SetAddress ==
    \E a \in Addresses :
        /\ FormShown
        /\ a # address
        /\ address' = a
        /\ UNCHANGED <<storeVars, screen, cartVars, params, coData,
                       coIsLoading, paymentMethod, dataLoaded, coAlert,
                       coTask, orderSeq, fnVars, histVars>>

\* setPaymentMethod('COD') and setPaymentMethod('BANKING')
SetPaymentMethod ==
    \E m \in {"COD", "BANKING"} :
        /\ FormShown
        /\ m # paymentMethod
        /\ paymentMethod' = m
        /\ UNCHANGED <<storeVars, screen, cartVars, params, coData,
                       coIsLoading, address, dataLoaded, coAlert, coTask,
                       orderSeq, fnVars, histVars>>

\* AddressMissing without the trim.
AddressMissingNoTrim(a) == a = <<>>

\* if (!address.trim())
AddressMissing(a) == Trim(a) = <<>>

\* handlePlaceOrder up to its POST.
HandlePlaceOrder ==
    /\ FormShown
    /\ IF AddressMissing(address)
       THEN /\ coAlert' = "address"
            /\ UNCHANGED <<screen, coIsLoading, coTask, orderSeq>>
       ELSE IF ~session \/ coUserInfo = NullUser
       THEN /\ coIsLoading' = TRUE
            /\ screen' = "login"
            /\ UNCHANGED <<coAlert, coTask, orderSeq>>
       ELSE /\ orderSeq < MaxOrders
            /\ coIsLoading' = TRUE
            /\ orderSeq' = orderSeq + 1
            /\ coTask' = CoTask("POST", "sent", <<>>,
                                <<NewOrder(orderSeq + 1, coUserInfo, address,
                                           coCartItems, coTotalPrice,
                                           paymentMethod)>>)
            /\ UNCHANGED <<screen, coAlert>>
    /\ UNCHANGED <<storeVars, cartVars, params, coData, coForm, dataLoaded,
                   fnVars, histVars>>

\* The store creates the order of POST /orders and the handler goes on to
\* its PATCH /users/{id} {cart: []}.
PostDone ==
    /\ coTask.kind = "POST"
    /\ remoteOrders' = Append(remoteOrders, coTask.order[1])
    /\ coTask' = CoTask("PATCH", "sent", ClearCartBody(coCartItems),
                        coTask.order)
    /\ UNCHANGED <<session, locale, remoteCart, lastCartWrite, screen, cartVars,
                   params, coData, coIsLoading, coForm, dataLoaded, coAlert,
                   orderSeq, fnVars, histVars>>

\* The catch block of handlePlaceOrder.
PlaceOrderCatch ==
    /\ coIsLoading' = FALSE
    /\ coAlert' = "place"
    /\ coTask' = NoCoTask
    /\ UNCHANGED <<storeVars, screen, cartVars, params, coData, coForm,
                   dataLoaded, orderSeq, fnVars, histVars>>

\* PostFail with the POST outside the try block: the handler goes on to
\* clear the cart.
PostFailThenPatch ==
    /\ coTask.kind = "POST"
    /\ coTask' = CoTask("PATCH", "sent", <<>>, coTask.order)
    /\ UNCHANGED <<storeVars, screen, cartVars, params, coData, coIsLoading,
                   coForm, dataLoaded, coAlert, orderSeq, fnVars, histVars>>

\* POST /orders fails.
PostFail ==
    /\ coTask.kind = "POST"
    /\ PlaceOrderCatch

\* The store applies the PATCH that clears the cart and the handler ends
\* with the success notice.
PatchDone ==
    /\ coTask.kind = "PATCH"
    /\ remoteCart' = coTask.cart
    /\ lastCartWrite' = "Checkout"
    /\ coIsLoading' = FALSE
    /\ coAlert' = "success"
    /\ coTask' = NoCoTask
    /\ UNCHANGED <<session, locale, remoteOrders, screen, cartVars, params, coData,
                   coForm, dataLoaded, orderSeq, fnVars, histVars>>

\* PATCH /users/{id} fails.
PatchFail ==
    /\ coTask.kind = "PATCH"
    /\ PlaceOrderCatch

\* The user dismisses a notice of the Checkout screen.
CoAlertDismiss ==
    /\ screen = "checkout"
    /\ coAlert \in {"address", "load", "place"}
    /\ coAlert' = "none"
    /\ UNCHANGED <<storeVars, screen, cartVars, params, coData, coIsLoading,
                   coForm, dataLoaded, coTask, orderSeq, fnVars, histVars>>

\* The "OK" of the success notice: router.push('/(tabs)/Notifications').
SuccessOk ==
    /\ screen = "checkout"
    /\ coAlert = "success"
    /\ coAlert' = "none"
    /\ screen' = "notifications"
    /\ UNCHANGED <<storeVars, cartVars, params, coData, coIsLoading, coForm,
                   dataLoaded, coTask, orderSeq, fnVars, histVars>>

\* Back from the order history to the screen that pushed it.
NotificationsBack ==
    /\ screen = "notifications"
    /\ screen' = "checkout"
    /\ UNCHANGED <<storeVars, cartVars, coVars, fnVars, histVars>>

\* The header's back button of Checkout: router.back() pops the screen, and
\* its state goes with it. The Cart screen below comes to the front again
\* and its focus effect calls fetchCartData.
CheckoutBack ==
    /\ FormShown
    /\ IF params.from = "cart"
       THEN /\ OutstandingCart < MaxInFlight
            /\ screen' = "cart"
            /\ cartIsLoading' = FetchCartDataLoading(cartIsLoading)
            /\ cartTasks' = FetchCartDataTasks(cartTasks)
       ELSE /\ screen' = "home"
            /\ UNCHANGED <<cartIsLoading, cartTasks>>
    /\ params' = NoParams
    /\ MountCheckout
    /\ UNCHANGED <<storeVars, cartItems, cartUserInfo, cartTotalPrice,
                   cartAlert, cartDialog, orderSeq, fnVars, histVars>>

Next ==
    \/ OpenCart
    \/ CartGetServe \/ CartGetDeliver \/ CartGetFail
    \/ CartAlertDismiss
    \/ UpdateQuantity
    \/ RemoveItemAsk \/ RemoveAllAsk \/ DialogCancel
    \/ RemoveItem \/ RemoveAllItems
    \/ CartPatchDone \/ CartPatchFail
    \/ NavigateToCheckout \/ OpenCheckout \/ LoadData
    \/ CoGetServe \/ CoGetDeliver \/ CoGetFail
    \/ SetAddress \/ SetPaymentMethod
    \/ HandlePlaceOrder
    \/ PostDone \/ PostFail \/ PatchDone \/ PatchFail
    \/ CoAlertDismiss \/ SuccessOk \/ NotificationsBack \/ CheckoutBack

Spec == Init /\ [][Next]_vars

\* The two screens as the app itself opens them: Checkout with the bundle of
\* the Cart screen or with none.
NextApp ==
    \/ OpenCart
    \/ CartGetServe \/ CartGetDeliver \/ CartGetFail
    \/ CartAlertDismiss
    \/ UpdateQuantity
    \/ RemoveItemAsk \/ RemoveAllAsk \/ DialogCancel
    \/ RemoveItem \/ RemoveAllItems
    \/ CartPatchDone \/ CartPatchFail
    \/ NavigateToCheckout \/ OpenCheckoutBare \/ LoadData
    \/ CoGetServe \/ CoGetDeliver \/ CoGetFail
    \/ SetAddress \/ SetPaymentMethod
    \/ HandlePlaceOrder
    \/ PostDone \/ PostFail \/ PatchDone \/ PatchFail
    \/ CoAlertDismiss \/ SuccessOk \/ NotificationsBack \/ CheckoutBack

SpecApp == Init /\ [][NextApp]_vars

\* The Cart screen alone, with Checkout opened and left but no order placed.
NextCart ==
    \/ OpenCart
    \/ CartGetServe \/ CartGetDeliver \/ CartGetFail
    \/ CartAlertDismiss
    \/ UpdateQuantity
    \/ RemoveItemAsk \/ RemoveAllAsk \/ DialogCancel
    \/ RemoveItem \/ RemoveAllItems
    \/ CartPatchDone \/ CartPatchFail
    \/ NavigateToCheckout \/ LoadData \/ CheckoutBack

SpecCart == InitWith(InitCarts) /\ [][NextCart]_vars

\* Loading the cart, handing it to Checkout and placing orders, with no edit
\* of the cart on the Cart screen.
NextOrder ==
    \/ OpenCart
    \/ CartGetServe \/ CartGetDeliver \/ CartGetFail
    \/ CartAlertDismiss
    \/ NavigateToCheckout \/ OpenCheckoutBare \/ LoadData
    \/ CoGetServe \/ CoGetDeliver \/ CoGetFail
    \/ SetAddress \/ SetPaymentMethod
    \/ HandlePlaceOrder
    \/ PostDone \/ PostFail \/ PatchDone \/ PatchFail
    \/ CoAlertDismiss \/ SuccessOk \/ NotificationsBack \/ CheckoutBack

SpecOrder == InitWith(InitCartsOrder) /\ [][NextOrder]_vars

(***************************************************************************)
(* The Notifications screen (src/app/(tabs)/Notifications.tsx): the order  *)
(* history read from the orders collection. It reads the store only; in    *)
(* the specifications of Cart and Checkout it is a place to navigate to,   *)
(* and its fetches are the steps of SpecHistory.                           *)
(*                                                                         *)
(* An orderDate is the ISO text of an instant, kept as its fields in the   *)
(* device's time zone: year, month, day of the month and hour.             *)
(***************************************************************************)
MaxHistory == 3

IsoDate(d, h) == [y |-> 2026, m |-> 11, d |-> d, h |-> h]

\* new Date(text) as a number: later instants give larger numbers
GetTime(date) == ((date.y * 12 + date.m - 1) * 31 + date.d - 1) * 24 + date.h

\* The comparator that orders a before b when a is the older one.
CompareOrdersAscending(a, b) == GetTime(a.orderDate) - GetTime(b.orderDate)

\* (a, b) => new Date(b.orderDate) - new Date(a.orderDate)
CompareOrders(a, b) == GetTime(b.orderDate) - GetTime(a.orderDate)

\* One step of the stable sort: o goes behind every order the comparator
\* does not put behind it.
RECURSIVE InsertOrder(_, _)
InsertOrder(sorted, o) ==
    IF sorted = <<>> THEN <<o>>
    ELSE IF CompareOrders(sorted[Len(sorted)], o) <= 0 THEN Append(sorted, o)
    ELSE Append(InsertOrder(SubSeq(sorted, 1, Len(sorted) - 1), o),
                sorted[Len(sorted)])

RECURSIVE SortInto(_, _)
SortInto(sorted, list) ==
    IF list = <<>> THEN sorted
    ELSE SortInto(InsertOrder(sorted, Head(list)), Tail(list))

\* response.data.sort(comparator): Array.prototype.sort is stable
SortOrders(list) == SortInto(<<>>, list)

\* formatDate(dateString): `${getDate()}/${getMonth() + 1}/${getFullYear()}`
formatDate(date) == <<date.d, date.m, date.y>>

\* The grouping that opens a new bucket whenever the day changes.
AddToGroupAdjacent(grouped, order) ==
    IF /\ grouped # <<>>
       /\ grouped[Len(grouped)].key = formatDate(order.orderDate)
    THEN [grouped EXCEPT ![Len(grouped)].orders = Append(@, order)]
    ELSE Append(grouped, [key |-> formatDate(order.orderDate),
                          orders |-> <<order>>])

\* if (!grouped[date]) grouped[date] = []; grouped[date].push(order)
\* The object is the sequence of its properties in the order they were
\* made: no key is an array index, so Object.keys lists them in that order.
AddToGroup(grouped, order) ==
    IF \E i \in 1..Len(grouped) : grouped[i].key = formatDate(order.orderDate)
    THEN [i \in 1..Len(grouped) |->
            IF grouped[i].key = formatDate(order.orderDate)
            THEN [grouped[i] EXCEPT !.orders = Append(@, order)]
            ELSE grouped[i]]
    ELSE Append(grouped, [key |-> formatDate(order.orderDate),
                          orders |-> <<order>>])

RECURSIVE GroupInto(_, _)
GroupInto(grouped, list) ==
    IF list = <<>> THEN grouped
    ELSE GroupInto(AddToGroup(grouped, Head(list)), Tail(list))

\* groupOrdersByDate(), on the list it is given
groupOrdersByDate(list) == GroupInto(<<>>, list)

\* Object.keys(groupedOrders)
dateKeys(grouped) == [i \in 1..Len(grouped) |-> grouped[i].key]

\* The i-th order the store receives: the days alternate and two orders of
\* one day carry the same instant.
HistoryOrder(i) ==
    [id |-> i,
     orderDate |-> IsoDate(IF i % 2 = 1 THEN 4 ELSE 3,
                           IF i > 3 THEN 17 ELSE 9)]

HistTask(st, resp) == [st |-> st, resp |-> resp]

OutstandingHist == BagCardinality(nTasks)

\* n calls of fetchOrders, up to the await of the GET; onRefresh has set
\* refreshing before its call. Without a userId the call clears both flags
\* and returns.
FetchOrders(n, refreshing) ==
    IF session
    THEN /\ nTasks' = IF n = 1 THEN nTasks (+) One(HistTask("sent", <<>>))
                      ELSE nTasks (+) One(HistTask("sent", <<>>))
                                  (+) One(HistTask("sent", <<>>))
         /\ nRefreshing' = refreshing
         /\ UNCHANGED <<nOrders, nLoading>>
    ELSE /\ nLoading' = FALSE
         /\ nRefreshing' = FALSE
         /\ UNCHANGED <<nOrders, nTasks>>

\* The tab comes to the front. The first time the screen mounts: the mount
\* effect calls fetchOrders and starts the timer, and the focus effect
\* calls fetchOrders as well. Later only the focus effect runs.
OpenNotifications ==
    /\ screen = "home"
    /\ OutstandingHist + (IF nMounted THEN 1 ELSE 2) <= MaxInFlight
    /\ screen' = "notifications"
    /\ nMounted' = TRUE
    /\ FetchOrders(IF nMounted THEN 1 ELSE 2, nRefreshing)
    /\ UNCHANGED <<storeVars, cartVars, coVars, fnVars, nErrorLogged>>

\* The tab goes to the back; the screen stays mounted and its timer runs.
LeaveNotifications ==
    /\ screen = "notifications"
    /\ screen' = "home"
    /\ UNCHANGED <<storeVars, cartVars, coVars, fnVars, histVars>>

\* The 30 second interval fires.
TimerTick ==
    /\ nMounted
    /\ OutstandingHist < MaxInFlight
    /\ FetchOrders(1, nRefreshing)
    /\ UNCHANGED <<storeVars, screen, cartVars, coVars, fnVars, nMounted,
                   nErrorLogged>>

\* onRefresh: the pull on the list, which is drawn once loading is over.
OnRefresh ==
    /\ screen = "notifications"
    /\ ~nLoading
    /\ OutstandingHist < MaxInFlight
    /\ FetchOrders(1, TRUE)
    /\ UNCHANGED <<storeVars, screen, cartVars, coVars, fnVars, nMounted,
                   nErrorLogged>>

\* The server answers GET /orders?userId= with the orders of the user.
HistGetServe ==
    /\ BagIn(HistTask("sent", <<>>), nTasks)
    /\ nTasks' = (nTasks (-) One(HistTask("sent", <<>>)))
                     (+) One(HistTask("ok", remoteOrders))
    /\ UNCHANGED <<storeVars, screen, cartVars, coVars, fnVars, nOrders,
                   nLoading, nRefreshing, nMounted, nErrorLogged>>

\* The delivery that adds the response to the list on the screen.
HistGetDeliverMerges ==
    \E t \in BagToSet(nTasks) :
        /\ t.st = "ok"
        /\ nTasks' = nTasks (-) One(t)
        /\ nOrders' = SortOrders(nOrders \o t.resp)
        /\ nLoading' = FALSE
        /\ nRefreshing' = FALSE
        /\ UNCHANGED <<storeVars, screen, cartVars, coVars, fnVars, nMounted,
                       nErrorLogged>>

\* The response reaches fetchOrders: the sorted list is shown and both
\* flags are cleared.
HistGetDeliver ==
    \E t \in BagToSet(nTasks) :
        /\ t.st = "ok"
        /\ nTasks' = nTasks (-) One(t)
        /\ nOrders' = SortOrders(t.resp)
        /\ nLoading' = FALSE
        /\ nRefreshing' = FALSE
        /\ UNCHANGED <<storeVars, screen, cartVars, coVars, fnVars, nMounted,
                       nErrorLogged>>

\* The catch block that leaves the pull-to-refresh spinner on.
HistGetFailKeepsRefreshing ==
    /\ BagIn(HistTask("sent", <<>>), nTasks)
    /\ nTasks' = nTasks (-) One(HistTask("sent", <<>>))
    /\ nErrorLogged' = TRUE
    /\ nLoading' = FALSE
    /\ UNCHANGED <<storeVars, screen, cartVars, coVars, fnVars, nOrders,
                   nMounted, nRefreshing>>

\* The GET is rejected: the catch block logs and clears both flags.
HistGetFail ==
    /\ BagIn(HistTask("sent", <<>>), nTasks)
    /\ nTasks' = nTasks (-) One(HistTask("sent", <<>>))
    /\ nErrorLogged' = TRUE
    /\ nLoading' = FALSE
    /\ nRefreshing' = FALSE
    /\ UNCHANGED <<storeVars, screen, cartVars, coVars, fnVars, nOrders,
                   nMounted>>

\* An order of the user is posted to the store with its orderDate.
OrderArrives ==
    /\ Len(remoteOrders) < MaxHistory
    /\ remoteOrders' = Append(remoteOrders, HistoryOrder(Len(remoteOrders) + 1))
    /\ UNCHANGED <<session, locale, remoteCart, lastCartWrite, screen,
                   cartVars, coVars, fnVars, histVars>>

NextHistory ==
    \/ OpenNotifications \/ LeaveNotifications \/ TimerTick \/ OnRefresh
    \/ HistGetServe \/ HistGetDeliver \/ HistGetFail
    \/ OrderArrives

SpecHistory == InitWith({<<>>}) /\ [][NextHistory]_vars

(***************************************************************************)
(* The functions of the two screens applied on their own: the cart edits   *)
(* to any cart of up to three lines with distinct ids, the totals to carts *)
(* of priced lines, the formatter and the parser to amounts and price      *)
(* strings.                                                                *)
(***************************************************************************)
QtyLines ==
    {LineA(q) : q \in 1..MaxQty} \cup {LineB(q) : q \in 1..MaxQty}
        \cup {LineC(q) : q \in 1..MaxQty}

PureCarts ==
    {c \in UNION {[1..n -> QtyLines] : n \in 0..Cardinality(ItemIds)} :
        \A i, j \in 1..Len(c) : i # j => c[i].id # c[j].id}

\* Price strings as the store holds them, and three that are not in the
\* store's format: no digit in front, no grouping, grouped with ",".
Price500 == <<"5", "0", "0", "d">>
Price1250000 == <<"1", ".", "2", "5", "0", ".", "0", "0", "0", "d">>
Price0 == <<"0", "d">>
StorePrices == {Price0, Price500, Price5, Price10, Price1250000}
OtherPrices == {<<"d", "5">>, <<"5", "0", "0", "0", "d">>,
                <<"1", ",", "0", "0", "0", "d">>}

\* The priced line at place i of a cart.
PricedLines(i) ==
    {Line(<<"c1", "c2", "c3">>[i], <<"p">>, p, q) :
        p \in StorePrices \cup {<<"d", "5">>}, q \in 1..MaxQty}

PricedCarts ==
    {c \in UNION {[1..n -> UNION {PricedLines(i) : i \in 1..2}] : n \in 0..2} :
        \A i \in 1..Len(c) : c[i] \in PricedLines(i)}
        \cup {<<LineA(2), LineB(3)>>, <<LineB(3), LineA(2)>>,
              <<LineA(1), LineB(1), LineC(1)>>}

Amounts == {0, 7, 999, 1000, 35000, 65000, 1250000}

ProductIds == UNION {[1..n -> {"a", "b", "p"}] : n \in 0..2}

\* The argument a function is applied to.
PureArgs ==
    {[t |-> "amount", v |-> n] : n \in Amounts}
        \cup {[t |-> "price", v |-> p] : p \in StorePrices \cup OtherPrices}
        \cup {[t |-> "productId", v |-> p] : p \in ProductIds}

\* The instants of the orders: two days, and two instants of the later day.
HistDates == {IsoDate(3, 9), IsoDate(4, 9), IsoDate(4, 17)}

\* The order lists of n orders, each with the place it was fetched at as id.
RECURSIVE HistoriesOfLen(_)
HistoriesOfLen(n) ==
    IF n = 0 THEN {<<>>}
    ELSE {Append(h, [id |-> n, orderDate |-> date]) :
              h \in HistoriesOfLen(n - 1), date \in HistDates}

PureHistories == UNION {HistoriesOfLen(n) : n \in 0..MaxHistory}

HistoryArgs == {[t |-> "orders", v |-> h] : h \in PureHistories}

InitPure ==
    /\ AppInit({<<>>})
    /\ fnOp = "none"
    /\ fnOut = <<>>
    /\ fnRes = 0
    /\ \/ /\ fnArg = [t |-> "edit", v |-> 0]
          /\ fnCart \in PureCarts
          /\ fnId \in ItemIds
          /\ fnQty \in 0..MaxQty
       \/ /\ fnArg = [t |-> "total", v |-> 0]
          /\ fnCart \in PricedCarts
          /\ fnId = "c1"
          /\ fnQty = 0
       \/ /\ fnArg \in PureArgs \cup HistoryArgs
          /\ fnCart = <<>>
          /\ fnId = "c1"
          /\ fnQty = 0

\* updatedCart of updateQuantity(fnId, fnQty) on the cart fnCart
ApplySetQuantity ==
    /\ fnArg.t = "edit"
    /\ fnOp = "none"
    /\ fnOp' = "setQuantity"
    /\ fnOut' = SetQuantity(fnCart, fnId, fnQty)
    /\ UNCHANGED <<appVars, fnCart, fnId, fnQty, fnArg, fnRes>>

\* updatedCart of a second updateQuantity(fnId, fnQty), on the cart the
\* first one made
ApplySetQuantityAgain ==
    /\ fnOp = "setQuantity"
    /\ fnOp' = "setQuantityAgain"
    /\ fnOut' = SetQuantity(fnOut, fnId, fnQty)
    /\ UNCHANGED <<appVars, fnCart, fnId, fnQty, fnArg, fnRes>>

\* updatedCart of removeItem(fnId) on the cart fnCart
ApplyRemoveLine ==
    /\ fnArg.t = "edit"
    /\ fnOp = "none"
    /\ fnOp' = "removeLine"
    /\ fnOut' = RemoveLine(fnCart, fnId)
    /\ UNCHANGED <<appVars, fnCart, fnId, fnQty, fnArg, fnRes>>

\* calculateTotalPrice of the Cart screen on the cart fnCart
ApplyCalculateTotalPrice ==
    /\ fnArg.t = "total"
    /\ fnOp = "none"
    /\ fnOp' = "cartTotal"
    /\ fnRes' = calculateTotalPrice(fnCart)
    /\ UNCHANGED <<appVars, fnCart, fnId, fnQty, fnOut, fnArg>>

\* calculateTotalPrice(items) of the Checkout screen on the cart fnCart
ApplyCoCalculateTotalPrice ==
    /\ fnArg.t = "total"
    /\ fnOp = "none"
    /\ fnOp' = "checkoutTotal"
    /\ fnRes' = coCalculateTotalPrice(fnCart)
    /\ UNCHANGED <<appVars, fnCart, fnId, fnQty, fnOut, fnArg>>

\* `${n.toLocaleString()}d` of an amount, or of the amount parsed before
ApplyFormatAmount ==
    /\ \/ /\ fnArg.t = "amount" /\ fnOp = "none"
          /\ fnOp' = "format"
          /\ fnRes' = FormatAmount(fnArg.v)
       \/ /\ fnOp = "parse"
          /\ fnOp' = "parseFormat"
          /\ fnRes' = FormatAmount(fnRes)
    /\ UNCHANGED <<appVars, fnCart, fnId, fnQty, fnOut, fnArg>>

\* The price parser of the reducers on a price string, or on the string
\* formatted before
ApplyParsePrice ==
    /\ \/ /\ fnArg.t = "price" /\ fnOp = "none"
          /\ fnOp' = "parse"
          /\ fnRes' = ParsePrice(fnArg.v)
       \/ /\ fnOp = "format"
          /\ fnOp' = "formatParse"
          /\ fnRes' = ParsePrice(fnRes)
    /\ UNCHANGED <<appVars, fnCart, fnId, fnQty, fnOut, fnArg>>

\* getItemType(productId)
ApplyGetItemType ==
    /\ fnArg.t = "productId"
    /\ fnOp = "none"
    /\ fnOp' = "getItemType"
    /\ fnRes' = getItemType(fnArg.v)
    /\ UNCHANGED <<appVars, fnCart, fnId, fnQty, fnOut, fnArg>>

\* groupOrdersByDate() on the orders fnArg.v
ApplyGroupOrdersByDate ==
    /\ fnArg.t = "orders"
    /\ fnOp = "none"
    /\ fnOp' = "groupOrdersByDate"
    /\ fnRes' = groupOrdersByDate(fnArg.v)
    /\ UNCHANGED <<appVars, fnCart, fnId, fnQty, fnOut, fnArg>>

NextPure ==
    \/ ApplySetQuantity \/ ApplySetQuantityAgain \/ ApplyRemoveLine
    \/ ApplyCalculateTotalPrice \/ ApplyCoCalculateTotalPrice
    \/ ApplyFormatAmount \/ ApplyParsePrice
    \/ ApplyGetItemType \/ ApplyGroupOrdersByDate

SpecPure == InitPure /\ [][NextPure]_vars

(***************************************************************************)
(* Properties.                                                             *)
(***************************************************************************)
HasId(cart, itemId) == \E i \in 1..Len(cart) : cart[i].id = itemId

\* C1: order placement is atomic with respect to the cart: once
\* handlePlaceOrder has ended, the order it created is never in the store
\* while the remote cart still holds the lines that were ordered.
C1_PlacementAtomic ==
    ~(/\ coTask.kind = "none"
      /\ remoteCart # <<>>
      /\ \E i \in 1..Len(remoteOrders) :
            /\ remoteOrders[i].id = orderSeq
            /\ OrderLines(remoteOrders[i]) = remoteCart)

\* C2: exactly-once order placement: the store never holds two orders made
\* of the same lines of a cart.
C2_ExactlyOnce ==
    \A i, j \in 1..Len(remoteOrders) :
        (i # j /\ remoteOrders[i].items # <<>>)
            => remoteOrders[i].items # remoteOrders[j].items

\* A step that ends the POST /orders of handlePlaceOrder without the order
\* being stored.
PostFailed ==
    /\ coTask.kind = "POST"
    /\ coTask' # coTask
    /\ remoteOrders' = remoteOrders

\* C3: when the POST /orders of handlePlaceOrder fails, the order is not in
\* the store, no PATCH is issued, the remote cart is what it was, the error
\* notice is shown and the form is back, with its input, for a retry.
C3_PostFailure ==
    [][PostFailed =>
        /\ coTask' = NoCoTask
        /\ \A i \in 1..Len(remoteOrders') :
              remoteOrders'[i].id # coTask.order[1].id
        /\ remoteCart' = remoteCart
        /\ coAlert' = "place"
        /\ coIsLoading' = FALSE
        /\ screen' = "checkout"
        /\ UNCHANGED <<coData, coForm>>]_vars

\* A POST /orders has failed: an order id was made, no order is stored and
\* the cart that was to be ordered is still in the store.
C3_Witness ==
    /\ coAlert = "place"
    /\ orderSeq = 1
    /\ remoteOrders = <<>>
    /\ remoteCart # <<>>
    /\ coCartItems = remoteCart

\* C4: with an empty or whitespace-only address handlePlaceOrder only shows
\* its notice: no order, no request, the Checkout state as it was; with any
\* other address (and a session and a loaded user) the order is posted.
C4_AddressGate ==
    [][HandlePlaceOrder =>
        IF Trim(address) = <<>>
        THEN /\ coAlert' = "address"
             /\ UNCHANGED <<storeVars, screen, cartVars, params, coData,
                            coIsLoading, coForm, dataLoaded, coTask,
                            orderSeq>>
        ELSE (session /\ coUserInfo # NullUser) =>
                /\ coTask'.kind = "POST"
                /\ coTask'.order[1].customerInfo.address = address
                /\ remoteOrders' = remoteOrders]_vars

\* The notice for a missing address is up for a whitespace-only address,
\* with a cart to order and nothing sent.
C4_Witness ==
    /\ coAlert = "address"
    /\ address = <<" ">>
    /\ coCartItems # <<>>
    /\ coTask = NoCoTask
    /\ remoteOrders = <<>>
    /\ ~coIsLoading

\* The carts of the GET responses the store produces in a step.
ServedCarts ==
    {t.cart : t \in {u \in BagToSet(cartTasks') :
                        /\ u.kind = "GET" /\ u.st = "ok"
                        /\ CopiesIn(u, cartTasks') > CopiesIn(u, cartTasks)}}
        \cup (IF coTask.kind = "GET" /\ coTask.st = "sent"
                   /\ coTask'.kind = "GET" /\ coTask'.st = "ok"
              THEN {coTask'.cart} ELSE {})

\* C5: once the PATCH of a successful handlePlaceOrder is the last write of
\* the user's cart, the remote cart is empty and every GET of the user
\* resource served from then on returns an empty cart.
C5_CartEmptyAfterOrder ==
    /\ [](lastCartWrite = "Checkout" => remoteCart = <<>>)
    /\ [][lastCartWrite = "Checkout" =>
            \A c \in ServedCarts : c = <<>>]_vars

\* An order of a cart that was not empty is stored, its PATCH was the last
\* write, and the Cart screen has loaded the cart again: it is empty.
C5_Witness ==
    /\ lastCartWrite = "Checkout"
    /\ Len(remoteOrders) = 1
    /\ remoteOrders[1].items # <<>>
    /\ screen = "cart"
    /\ cartTasks = EmptyBag
    /\ ~cartIsLoading
    /\ cartItems = <<>>

QuantitiesPositive(cart) == \A i \in 1..Len(cart) : cart[i].quantity >= 1

\* C6: every line of the persisted remote cart, and of every PATCH body on
\* its way to the store, has a quantity of at least 1.
C6_QuantityAtLeastOne ==
    /\ QuantitiesPositive(remoteCart)
    /\ \A t \in BagToSet(cartTasks) : QuantitiesPositive(t.cart)

\* A "-" tap on a line of quantity 1 has sent a PATCH without the line.
C6_Witness ==
    /\ Len(cartItems) = 1
    /\ cartItems[1].quantity = 1
    /\ \E t \in BagToSet(cartTasks) :
          t.kind = "PATCH" /\ t.op = "update" /\ t.cart = <<>>

\* The Cart screen's PATCH requests that are outstanding.
PatchesOutstanding ==
    BagCardinality([t \in {u \in BagToSet(cartTasks) : u.kind = "PATCH"}
                        |-> CopiesIn(t, cartTasks)])

PatchesOutstandingNext ==
    BagCardinality([t \in {u \in BagToSet(cartTasks') : u.kind = "PATCH"}
                        |-> CopiesIn(t, cartTasks')])

\* The cart an edit is computed from: the cartItems of the render whose
\* control was tapped.
EditBase == IF cartDialog.kind = "none" THEN cartItems ELSE cartDialog.base

\* C7: no lost update: whenever the Cart screen issues a PATCH, no earlier
\* PATCH is still outstanding and the cart the edit was computed from is
\* the remote cart.
C7_NoLostUpdate ==
    [][PatchesOutstandingNext > PatchesOutstanding =>
        /\ PatchesOutstanding = 0
        /\ EditBase = remoteCart]_vars

\* C8: single-flight: at most one PATCH of the Cart screen is outstanding.
C8_SingleFlight == PatchesOutstanding <= 1

\* C9: whenever Checkout submits an order, the cart snapshot it submits is
\* the remote cart.
C9_SnapshotIsRemoteCart ==
    [][(coTask.kind = "none" /\ coTask'.kind = "POST") =>
        OrderLines(coTask'.order[1]) = remoteCart]_vars

\* The lines of cart whose id is not itemId, each at the place it moves to
\* when the lines with that id are taken out.
Shift(cart, itemId, i) ==
    i - Cardinality({j \in 1..(i - 1) : cart[j].id = itemId})

IsRemoval(cart, itemId, out) ==
    /\ ~HasId(out, itemId)
    /\ Len(out) = Cardinality({i \in 1..Len(cart) : cart[i].id # itemId})
    /\ \A i \in 1..Len(cart) :
          cart[i].id # itemId => out[Shift(cart, itemId, i)] = cart[i]

\* C10: setting the quantity of a line of the cart to 0, and removing the
\* line, give a cart without that line, the other lines as they were and in
\* the same order.
C10_Removal ==
    (/\ HasId(fnCart, fnId)
     /\ \/ fnOp = "removeLine"
        \/ fnOp = "setQuantity" /\ fnQty = 0)
        => IsRemoval(fnCart, fnId, fnOut)

\* The middle line of a cart of three was taken out by a quantity of 0.
C10_Witness ==
    /\ fnOp = "setQuantity"
    /\ fnQty = 0
    /\ Len(fnCart) = 3
    /\ fnCart[2].id = fnId
    /\ fnOut = <<fnCart[1], fnCart[3]>>


\* C11: idempotence of setQuantity: setting the quantity of a line of the
\* cart to the quantity it has gives the cart back, and the same
\* setQuantity applied a second time changes nothing.
C11_Idempotence ==
    /\ []((/\ fnOp = "setQuantity"
           /\ \E i \in 1..Len(fnCart) :
                 fnCart[i].id = fnId /\ fnCart[i].quantity = fnQty)
            => fnOut = fnCart)
    /\ [][(fnOp = "setQuantity" /\ fnOp' = "setQuantityAgain")
            => fnOut' = fnOut]_vars

\* The quantity of the middle line of a cart of three was set to the
\* quantity it had, twice.
C11_Witness ==
    /\ fnOp = "setQuantityAgain"
    /\ Len(fnCart) = 3
    /\ fnCart[2].id = fnId
    /\ fnCart[2].quantity = fnQty
    /\ fnOut = fnCart

\* C12: setQuantity with a quantity other than 0 makes and removes no line:
\* the same ids in the same order, the quantity of the line with the id set,
\* every other field and every other line as it was; for an id that is not
\* in the cart the result is the cart.
C12_SetQuantityFrame ==
    (fnOp = "setQuantity" /\ fnQty # 0) =>
        /\ Len(fnOut) = Len(fnCart)
        /\ \A i \in 1..Len(fnCart) :
              /\ fnOut[i].id = fnCart[i].id
              /\ fnOut[i].productId = fnCart[i].productId
              /\ fnOut[i].price = fnCart[i].price
              /\ fnOut[i].quantity =
                    IF fnCart[i].id = fnId THEN fnQty ELSE fnCart[i].quantity
        /\ ~HasId(fnCart, fnId) => fnOut = fnCart

\* The quantity of the first line of a cart of two went from 1 to 2.
C12_Witness ==
    /\ fnOp = "setQuantity"
    /\ fnQty = 2
    /\ Len(fnCart) = 2
    /\ fnCart[1].id = fnId
    /\ fnCart[1].quantity = 1
    /\ fnOut = <<[fnCart[1] EXCEPT !.quantity = 2], fnCart[2]>>

\* A price string in the format of the store: an integer without leading
\* zeros, its digits in groups of three separated by ".", then the glyph.
WellFormedPrice(s) ==
    /\ Len(s) >= 2
    /\ s[Len(s)] = "d"
    /\ LET n == Len(s) - 1 IN
          /\ n % 4 # 0
          /\ s[1] = "0" => n = 1
          /\ \A i \in 1..n :
                IF (n - i) % 4 = 3 THEN s[i] = "." ELSE IsDigit(s[i])

WellFormedCart(cart) == \A i \in 1..Len(cart) : WellFormedPrice(cart[i].price)

\* The number a price string stands for: its digits as a decimal numeral.
NumericValue(price) ==
    LET ds == SelectSeq(price, IsDigit)
        val[i \in 0..Len(ds)] ==
            IF i = 0 THEN 0 ELSE val[i - 1] * 10 + DigitVal(ds[i])
    IN val[Len(ds)]

\* The sum over the lines of a cart of price times quantity.
SumOfLines(cart) ==
    LET acc[i \in 0..Len(cart)] ==
            IF i = 0 THEN 0
            ELSE acc[i - 1] + NumericValue(cart[i].price) * cart[i].quantity
    IN acc[Len(cart)]

\* C13: the total of a cart, as the Cart screen and as the Checkout screen
\* compute it, is the sum over its lines of the number the price string
\* stands for times the quantity: 35000 for "10.000d" x 2 and "5.000d" x 3,
\* and 0 for the empty cart.
C13_ComputeTotal ==
    (fnOp \in {"cartTotal", "checkoutTotal"} /\ WellFormedCart(fnCart)) =>
        /\ fnRes = SumOfLines(fnCart)
        /\ fnCart = <<LineA(2), LineB(3)>> => fnRes = 35000
        /\ fnCart = <<>> => fnRes = 0

\* The Checkout screen has computed 35000 for "10.000d" x 2, "5.000d" x 3.
C13_Witness ==
    /\ fnOp = "checkoutTotal"
    /\ Len(fnCart) = 2
    /\ fnCart[1].price = Price10 /\ fnCart[1].quantity = 2
    /\ fnCart[2].price = Price5 /\ fnCart[2].quantity = 3
    /\ fnRes = 35000

\* cart with its lines in the order p
Permuted(cart, p) == [i \in 1..Len(cart) |-> cart[p[i]]]

\* C14: for a cart of well-formed prices, a larger quantity of any line
\* never gives a smaller total, and the lines in any other order give the
\* same total.
C14_TotalMonotonicOrderFree ==
    (fnOp = "cartTotal" /\ WellFormedCart(fnCart)) =>
        /\ \A i \in 1..Len(fnCart) :
              \A q \in (fnCart[i].quantity + 1)..(MaxQty + 2) :
                 calculateTotalPrice([fnCart EXCEPT ![i].quantity = q])
                    >= fnRes
        /\ \A p \in Permutations(1..Len(fnCart)) :
              calculateTotalPrice(Permuted(fnCart, p)) = fnRes

\* The total of a cart of three lines with two different prices.
C14_Witness ==
    /\ fnOp = "cartTotal"
    /\ Len(fnCart) = 3
    /\ fnCart[1].price # fnCart[2].price
    /\ WellFormedCart(fnCart)
    /\ fnRes = 20000

\* C15: currency round trip: the parse of the string formatted for an
\* amount is the amount, and the string formatted for the parse of a
\* well-formed price string is that string.
C15_CurrencyRoundTrip ==
    /\ fnOp = "formatParse" => fnRes = fnArg.v
    /\ (fnOp = "parseFormat" /\ WellFormedPrice(fnArg.v)) => fnRes = fnArg.v


\* An amount in the currency format: the integer in groups of three digits
\* separated by ".", then the glyph.
DongString(n) == Grouped(DigitsOf(n), ".") \o <<"d">>

\* The orders made so far: those in the store and the one being sent.
OrdersMade ==
    {remoteOrders[i] : i \in 1..Len(remoteOrders)}
        \cup (IF coTask.kind = "POST" THEN {coTask.order[1]} ELSE {})

\* C16: the order handlePlaceOrder makes carries the formatted subtotal as
\* totalAmount, the formatted fee 30000 as shippingFee and the formatted
\* subtotal + fee as finalAmount: "65.000d" for a subtotal of 35000.
C16_OrderAmounts ==
    (coTask.kind = "POST" /\ coTotalPrice # NaN) =>
        /\ coTask.order[1].totalAmount = DongString(coTotalPrice)
        /\ coTask.order[1].shippingFee = DongString(30000)
        /\ coTask.order[1].finalAmount = DongString(coTotalPrice + 30000)
        /\ coTotalPrice = 35000 =>
              coTask.order[1].finalAmount = <<"6", "5", ".", "0", "0", "0", "d">>

\* The type of a product id by the rule: "a" in it, else "b" in it, else
\* neither.
TypeByRule(productId) ==
    IF \E i \in 1..Len(productId) : productId[i] = "a" THEN "pot"
    ELSE IF \E i \in 1..Len(productId) : productId[i] = "b" THEN "accessory"
    ELSE "plant"

\* C17: the type of every item of every order is pot for a product id with
\* an "a", else accessory for one with a "b", else plant, and the items of
\* the order handlePlaceOrder makes are the lines of the Checkout cart, in
\* their order and with their fields, each with its type added.
C17_Classify ==
    /\ [](\A o \in OrdersMade : \A i \in 1..Len(o.items) :
              o.items[i].type = TypeByRule(o.items[i].productId))
    /\ [][(coTask.kind = "none" /\ coTask'.kind = "POST") =>
            /\ Len(coTask'.order[1].items) = Len(coCartItems)
            /\ \A i \in 1..Len(coCartItems) :
                  /\ WithoutType(coTask'.order[1].items[i]) = coCartItems[i]
                  /\ coTask'.order[1].items[i].type =
                        TypeByRule(coCartItems[i].productId)]_vars

\* An order of an accessory and of a pot whose product id has both letters
\* is in the store.
C17_Witness ==
    /\ Len(remoteOrders) >= 1
    /\ Len(remoteOrders[1].items) = 2
    /\ remoteOrders[1].items[1].type = "accessory"
    /\ remoteOrders[1].items[2].type = "pot"
    /\ Includes(remoteOrders[1].items[2].productId, "b")

\* A step in which a request of the Cart screen that the store has not
\* served ends without a response.
CartRequestFailed(kind) ==
    \E t \in BagToSet(cartTasks) :
        /\ t.kind = kind
        /\ t.st = "sent"
        /\ cartTasks' = cartTasks (-) One(t)

\* C18: a failed request of the Cart screen applies nothing: after a failed
\* GET the local cart and the user profile are what they were, after a
\* failed PATCH the local cart and the remote cart are what they were, and
\* in both cases the error notice is up and the loading flag is cleared.
C18_CartFailureNoPartialApply ==
    [][/\ CartRequestFailed("GET") =>
            /\ cartItems' = cartItems
            /\ cartUserInfo' = cartUserInfo
            /\ cartTotalPrice' = cartTotalPrice
            /\ remoteCart' = remoteCart
            /\ cartAlert' = "fetch"
            /\ cartIsLoading' = FALSE
       /\ CartRequestFailed("PATCH") =>
            /\ cartItems' = cartItems
            /\ cartUserInfo' = cartUserInfo
            /\ remoteCart' = remoteCart
            /\ cartAlert' \in {"update", "remove", "removeAll"}
            /\ cartIsLoading' = FALSE]_vars

\* The PATCH of a "+" tap has failed: the notice is up, nothing is in
\* flight and the cart on the screen is still the remote cart.
C18_Witness ==
    /\ cartAlert = "update"
    /\ ~cartIsLoading
    /\ cartTasks = EmptyBag
    /\ cartItems # <<>>
    /\ cartItems = remoteCart
    /\ lastCartWrite = "none"

\* C19: without a stored session id, loading the cart on the Cart screen,
\* the fallback fetch of Checkout and placing an order send no request and
\* take the user to the login screen.
C19_NoSessionToLogin ==
    [][(/\ ~session
        /\ \/ OpenCart
           \/ LoadData /\ ~(BundleGiven(params) /\ ~BundleThrows(params))
           \/ HandlePlaceOrder /\ ~AddressMissing(address))
        => /\ screen' = "login"
           /\ cartTasks' = cartTasks
           /\ coTask' = coTask]_vars

\* A part of the bundle is not given, or does not deserialize.
BundleUnusable(b) ==
    \/ ~Truthy(b.cartData) \/ JsonParseThrows(b.cartData)
    \/ ~Truthy(b.userData) \/ JsonParseThrows(b.userData)
    \/ b.totalAmount = <<>> \/ ParseFloat(b.totalAmount) = NaN

\* C20: handoff fallback: when a part of the bundle is not given or does not
\* deserialize, loadData applies nothing of the bundle and (with a session)
\* fetches the user resource, and cart, profile and total are taken from
\* the response.
C20_HandoffFallback ==
    [][/\ (LoadData /\ BundleUnusable(params)) =>
            /\ UNCHANGED coData
            /\ session => (coTask'.kind = "GET" /\ coTask'.st = "sent")
       /\ (coTask.kind = "GET" /\ coTask.st = "ok" /\ coTask' # coTask) =>
            /\ coCartItems' = coTask.cart
            /\ coUserInfo' = Profile
            /\ coTotalPrice' = SumOfLines(coTask.cart)]_vars

\* C21: handoff and fresh fetch converge: the total the Cart screen hands
\* over is the total of the cart it hands over, and when that cart is the
\* cart of the user resource, loadData leaves Checkout with the cart, the
\* profile and the subtotal the fallback fetch of the same resource gives:
\* the response's cart, its profile and the total of its cart.
C21_HandoffFetchConverge ==
    [][/\ (LoadData /\ params.from = "cart") =>
            /\ ParseFloat(params.totalAmount)
                  = SumOfLines(JsonParse(params.cartData))
            /\ JsonParse(params.cartData) = remoteCart =>
                  /\ coCartItems' = remoteCart
                  /\ coUserInfo' = Profile
                  /\ coTotalPrice' = SumOfLines(remoteCart)
       /\ (coTask.kind = "GET" /\ coTask.st = "sent" /\ coTask'.st = "ok") =>
            coTask'.cart = remoteCart
       /\ (coTask.kind = "GET" /\ coTask.st = "ok" /\ coTask'.kind = "none") =>
            /\ coCartItems' = coTask.cart
            /\ coUserInfo' = Profile
            /\ coTotalPrice' = SumOfLines(coTask.cart)]_vars

\* Checkout has loaded the bundle of the Cart screen: the cart of two lines
\* of the user resource, the profile and the total 35000.
C21_Witness ==
    /\ screen = "checkout"
    /\ params.from = "cart"
    /\ dataLoaded
    /\ coCartItems = <<LineA(2), LineB(3)>>
    /\ coCartItems = remoteCart
    /\ coUserInfo = Profile
    /\ coTotalPrice = 35000

\* the step in which fetchOrders takes the response t
Completes(t) == t.st = "ok" /\ nTasks' = nTasks (-) One(t)

\* the place of the order o in the list
PlaceIn(list, o) == CHOOSE i \in 1..Len(list) : list[i] = o

\* C22: after a successful fetchOrders the list shown is the response
\* sorted descending by orderDate: it has the orders of the response, each
\* once; an order with a later orderDate stands before one with an earlier
\* orderDate; orders with the same orderDate stand in their fetch order.
C22_SortedDescending ==
    [][\A t \in BagToSet(nTasks) :
          Completes(t) =>
              /\ Len(nOrders') = Len(t.resp)
              /\ \A i \in 1..Len(t.resp) :
                    \E j \in 1..Len(nOrders') : nOrders'[j] = t.resp[i]
              /\ \A i, j \in 1..Len(nOrders') :
                    /\ GetTime(nOrders'[i].orderDate)
                          > GetTime(nOrders'[j].orderDate) => i < j
                    /\ ( /\ i < j
                         /\ nOrders'[i].orderDate = nOrders'[j].orderDate )
                       => PlaceIn(t.resp, nOrders'[i])
                              < PlaceIn(t.resp, nOrders'[j])]_vars

\* A response of three orders, the second older than the other two, which
\* carry one instant, is shown: first, third, second.
C22_Witness ==
    /\ ~nLoading
    /\ Len(remoteOrders) >= 3
    /\ nOrders = <<HistoryOrder(1), HistoryOrder(3), HistoryOrder(2)>>
    /\ HistoryOrder(1).orderDate = HistoryOrder(3).orderDate
    /\ GetTime(HistoryOrder(2).orderDate) < GetTime(HistoryOrder(1).orderDate)

\* the first place in the list of an order of the day with the key
FirstSeen(list, key) ==
    CHOOSE i \in 1..Len(list) :
        /\ formatDate(list[i].orderDate) = key
        /\ \A j \in 1..(i - 1) : formatDate(list[j].orderDate) # key

\* C23: groupOrdersByDate partitions the orders by calendar-day key: every
\* order is in exactly one bucket, the bucket of its day; the keys are in
\* the order the days are first seen in the input; each bucket holds its
\* orders in their input order.
C23_GroupByDate ==
    fnOp = "groupOrdersByDate" =>
        /\ \A i \in 1..Len(fnArg.v) :
              Cardinality({bk \in {<<b, k>> : b \in 1..Len(fnRes),
                                               k \in 1..Len(fnArg.v)} :
                              /\ bk[2] <= Len(fnRes[bk[1]].orders)
                              /\ fnRes[bk[1]].orders[bk[2]] = fnArg.v[i]}) = 1
        /\ \A b \in 1..Len(fnRes) :
              /\ fnRes[b].orders # <<>>
              /\ \A k \in 1..Len(fnRes[b].orders) :
                    /\ formatDate(fnRes[b].orders[k].orderDate) = fnRes[b].key
                    /\ \E i \in 1..Len(fnArg.v) :
                          fnRes[b].orders[k] = fnArg.v[i]
              /\ \A k, l \in 1..Len(fnRes[b].orders) :
                    k < l => PlaceIn(fnArg.v, fnRes[b].orders[k])
                                 < PlaceIn(fnArg.v, fnRes[b].orders[l])
        /\ \A b, c \in 1..Len(fnRes) :
              b < c => FirstSeen(fnArg.v, dateKeys(fnRes)[b])
                           < FirstSeen(fnArg.v, dateKeys(fnRes)[c])

\* Orders of the days D2, D1, D2 are grouped: the keys are D2, D1 and the
\* bucket of D2 holds the first and the third order, in that order.
C23_Witness ==
    /\ fnOp = "groupOrdersByDate"
    /\ Len(fnArg.v) = 3
    /\ [i \in 1..3 |-> fnArg.v[i].orderDate.d] = <<4, 3, 4>>
    /\ dateKeys(fnRes) = <<<<4, 11, 2026>>, <<3, 11, 2026>>>>
    /\ fnRes[1].orders = <<fnArg.v[1], fnArg.v[3]>>
    /\ fnRes[2].orders = <<fnArg.v[2]>>

\* the step adds n requests for the orders, each the same GET
Requests(n) ==
    /\ n > 0
    /\ nTasks' = IF n = 1 THEN nTasks (+) One(HistTask("sent", <<>>))
                 ELSE nTasks (+) One(HistTask("sent", <<>>))
                             (+) One(HistTask("sent", <<>>))

\* C24: under any interleaving of the mount fetch, the timer fetch, the
\* focus fetch and the pull-to-refresh the list shown is never a merge of
\* two responses: the step in which a fetch completes sets the list to the
\* sorted response of that fetch, whatever was shown before and whatever
\* else is in flight, and no other step changes the list; every trigger
\* runs the same fetchOrders: it sends the same request and leaves the list.
C24_LastCompletedFetchWins ==
    [][/\ \A t \in BagToSet(nTasks) :
              Completes(t) =>
                  /\ nOrders' = SortOrders(t.resp)
                  /\ ~nLoading' /\ ~nRefreshing'
       /\ nOrders' # nOrders =>
              \E t \in BagToSet(nTasks) : Completes(t)
       /\ (OpenNotifications \/ TimerTick \/ OnRefresh) =>
              /\ nOrders' = nOrders
              /\ session => Requests(BagCardinality(nTasks')
                                         - BagCardinality(nTasks))
              /\ ~session => /\ nTasks' = nTasks
                              /\ ~nLoading'
                              /\ ~nRefreshing']_vars

\* A pull-to-refresh is in progress, the list shows the one order of an
\* earlier response, and the responses of two later fetches, of two and of
\* three orders, are on their way to the screen.
C24_Witness ==
    /\ nOrders = <<HistoryOrder(1)>>
    /\ nRefreshing
    /\ BagIn(HistTask("ok", <<HistoryOrder(1), HistoryOrder(2)>>), nTasks)
    /\ BagIn(HistTask("ok", <<HistoryOrder(1), HistoryOrder(2),
                              HistoryOrder(3)>>), nTasks)

\* the step in which the GET of a fetchOrders is rejected
GetRejected ==
    /\ BagIn(HistTask("sent", <<>>), nTasks)
    /\ nTasks' = nTasks (-) One(HistTask("sent", <<>>))

\* C25, as the claim has it: when the GET of fetchOrders fails, the list
\* shown is empty afterwards and the loading and refreshing flags are
\* cleared.
C25_FailsToEmptyList ==
    [][GetRejected => /\ nOrders' = <<>>
                      /\ ~nLoading'
                      /\ ~nRefreshing']_vars

\* C25, amended: when the GET of fetchOrders fails, the list shown is left
\* as it was (empty only if no fetch has succeeded before), the error is
\* written to the console and nothing else on the screen changes, and the
\* loading and refreshing flags are cleared.
C25_FailureKeepsList ==
    [][GetRejected => /\ nOrders' = nOrders
                      /\ nErrorLogged'
                      /\ screen' = screen
                      /\ ~nLoading'
                      /\ ~nRefreshing']_vars

\* A fetch has failed, none is in flight, and the screen shows the orders
\* of an earlier response with both flags cleared.
C25_Witness ==
    /\ nErrorLogged
    /\ nTasks = EmptyBag
    /\ nOrders = <<HistoryOrder(1), HistoryOrder(2)>>
    /\ ~nLoading
    /\ ~nRefreshing

\* The Cart screen is in front with none of its requests in flight.
CartSettled == screen = "cart" /\ cartTasks = EmptyBag

\* loadData of the Checkout screen has run and none of the screen's
\* requests is in flight.
CheckoutSettled == dataLoaded /\ coTask = NoCoTask

\* C26: the loading flag always clears: once the requests of the started
\* operations of the Cart screen, and of loadData and handlePlaceOrder of
\* the Checkout screen, have completed or failed, isLoading is false, on
\* every path including the one with no session id stored.
C26_LoadingClears ==
    /\ CartSettled => ~cartIsLoading
    /\ CheckoutSettled => ~coIsLoading

\* C27: no order is ever created with an empty item list: a POST /orders
\* is issued only when the cart of the Checkout screen holds at least one
\* line, whether Checkout was entered by handoff or loaded by the fallback
\* fetch, and no order of the store is without items.
C27_NoEmptyOrder ==
    /\ coTask.kind = "POST" =>
          /\ coCartItems # <<>>
          /\ coTask.order[1].items # <<>>
    /\ \A i \in 1..Len(remoteOrders) : remoteOrders[i].items # <<>>

\* C28: every order handlePlaceOrder has posted carries as totalAmount the
\* formatted total of its own items, the sum over them of the number the
\* price stands for times the quantity, whichever way the Checkout screen
\* was loaded.
C28_OrderTotalOfItems ==
    \A o \in OrdersMade :
        o.totalAmount = DongString(SumOfLines(OrderLines(o)))

=============================================================================
